---------------------------- MODULE Spec2Model ----------------------------
(***************************************************************************)
(* A model of scripts/build_signals.py: the indicator library, the market  *)
(* regime classifier, the five daily strategies, the weekly strategy, the  *)
(* liquidity gate and the collect / rank / cap loop of main().             *)
(*                                                                         *)
(* Numbers.  The program computes in IEEE doubles.  The model computes in  *)
(* decimal fixed point, rounding every quotient to the nearest unit:       *)
(*   prices, moving averages, ATR ...... thousandths of a dollar (mills)   *)
(*   RSI ............................... hundredths of a percent           *)
(*   rr, quality, ranking score ........ ten-thousandths                   *)
(* A float is a record [nan, v]: nan marks a missing value (NaN), and      *)
(* every comparison with a NaN is FALSE, as in the program.                *)
(***************************************************************************)
EXTENDS Integers, Sequences, FiniteSets, TLC

----------------------------------------------------------------------------
(* Fixed-point helpers *)

Abs(x) == IF x < 0 THEN -x ELSE x

Max2(a, b) == IF a >= b THEN a ELSE b

\* a / b rounded to the nearest integer (halves away from zero), b > 0
RoundDiv(a, b) == IF a >= 0 THEN (2 * a + b) \div (2 * b)
                            ELSE -((2 * (-a) + b) \div (2 * b))

\* a * b / c rounded to the nearest integer, for a, b >= 0 and c > 0, with
\* no intermediate product above (c - 1) * b
MulDivNat(a, b, c) ==
    LET q == a \div c
        r == a % c
    IN  q * b + RoundDiv(r * b, c)

MulDiv(a, b, c) == IF a >= 0 THEN MulDivNat(a, b, c) ELSE -MulDivNat(-a, b, c)

\* floats
NaN == [nan |-> TRUE, v |-> 0]
Fl(x) == [nan |-> FALSE, v |-> x]
isna(a) == a.nan
Gt(a, b) == ~a.nan /\ ~b.nan /\ a.v > b.v
Ge(a, b) == ~a.nan /\ ~b.nan /\ a.v >= b.v
Lt(a, b) == ~a.nan /\ ~b.nan /\ a.v < b.v
Le(a, b) == ~a.nan /\ ~b.nan /\ a.v <= b.v
FAdd(a, b) == IF a.nan \/ b.nan THEN NaN ELSE Fl(a.v + b.v)
FSub(a, b) == IF a.nan \/ b.nan THEN NaN ELSE Fl(a.v - b.v)
\* a times the decimal k / 10 (the multipliers of the program have one decimal)
FMulTenths(k, a) == IF a.nan THEN NaN ELSE Fl(RoundDiv(k * a.v, 10))

\* max(a, 1e-6) of the program: a NaN first argument stays, and anything at or
\* below 1e-6 dollars becomes 1e-6, which is below one mill and is written 0
FloorEps(a) == IF a.nan THEN NaN ELSE Fl(Max2(a.v, 0))

\* num / den for two amounts in mills, den already floored by FloorEps, as a
\* ratio in ten-thousandths; a den of 0 stands for 1e-6 dollars = 1/1000 mill
Ratio(num, den) ==
    IF num.nan \/ den.nan THEN NaN
    ELSE IF den.v > 0 THEN Fl(MulDiv(num.v, 10000, den.v))
    ELSE Fl(num.v * 10000000)

\* max(0.0, x) of the program: a NaN second argument gives 0.0
Max0(a) == IF a.nan THEN Fl(0) ELSE Fl(Max2(0, a.v))

\* float(f"{x:.2f}") and float(f"{x:.3f}") of a ratio in ten-thousandths
Fmt2(a) == IF a.nan THEN NaN ELSE Fl(RoundDiv(a.v, 100) * 100)
Fmt3(a) == IF a.nan THEN NaN ELSE Fl(RoundDiv(a.v, 10) * 10)

----------------------------------------------------------------------------
(* Indicator library.  A series is a sequence of integers (mills) without  *)
(* missing values: fetch_stooq_csv ends with dropna().                     *)

\* One step of an exponentially weighted mean with alpha = num/den
EwmStep(y, x, num, den) == RoundDiv((den - num) * y + num * x, den)

\* The steps lo..hi applied in order to y (halving keeps the evaluation shallow)
RECURSIVE EwmFold(_, _, _, _, _, _)
EwmFold(s, num, den, y, lo, hi) ==
    IF lo > hi THEN y
    ELSE IF lo = hi THEN EwmStep(y, s[lo], num, den)
    ELSE LET mid == (lo + hi) \div 2
             left == EwmFold(s, num, den, y, lo, mid)
         IN  \* the test makes the left half's value known before the right
             \* half is entered
             IF left = left THEN EwmFold(s, num, den, left, mid + 1, hi) ELSE y

\* The value at position t of s.ewm(alpha = num/den, adjust=False).mean():
\* y[1] = s[1], y[t] = (1 - alpha) y[t-1] + alpha s[t].
EwmAt(s, num, den, t) == EwmFold(s, num, den, s[1], 2, t)

\* ema(s, n): span = n, alpha = 2 / (n + 1); defined wherever s is.
ema(s, n, t) == IF t < 1 \/ t > Len(s) THEN NaN ELSE Fl(EwmAt(s, 2, n + 1, t))

RECURSIVE SumRange(_, _, _)
SumRange(s, lo, hi) ==
    IF lo > hi THEN 0
    ELSE IF lo = hi THEN s[lo]
    ELSE LET mid == (lo + hi) \div 2
         IN  SumRange(s, lo, mid) + SumRange(s, mid + 1, hi)

\* sma(s, n): s.rolling(n).mean(); missing on the first n - 1 positions.
sma(s, n, t) ==
    IF t < n \/ t > Len(s) THEN NaN ELSE Fl(RoundDiv(SumRange(s, t - n + 1, t), n))

\* series.diff() split into gains and losses; the first difference is NaN and
\* np.where(NaN > 0, ..) and np.where(NaN < 0, ..) both give 0.0
Gains(s) == [t \in 1..Len(s) |-> IF t > 1 /\ s[t] > s[t-1] THEN s[t] - s[t-1] ELSE 0]
Losses(s) == [t \in 1..Len(s) |-> IF t > 1 /\ s[t] < s[t-1] THEN s[t-1] - s[t] ELSE 0]

\* The smoothed average gain and the smoothed average loss of rsi(series, n)
AvgGain(s, n, t) == EwmAt(Gains(s), 1, n, t)
AvgLoss(s, n, t) == EwmAt(Losses(s), 1, n, t)

\* 100 - 100 / (1 + ru / rd) from the two smoothed averages, with
\* rd.replace(0, np.nan): a zero average loss is turned into a missing value,
\* and a missing rd makes rs and the result missing.
RsiOf(ru, rd) == IF rd = 0 THEN NaN ELSE Fl(MulDiv(ru, 10000, ru + rd))

rsi(s, n, t) ==
    IF t < 1 \/ t > Len(s) THEN NaN ELSE RsiOf(AvgGain(s, n, t), AvgLoss(s, n, t))

\* True range of bar t: max(h - l, |h - pc|, |l - pc|), the maximum skipping
\* the two missing terms of the first bar.
TrueRange(bars, t) ==
    LET h == bars[t].high
        l == bars[t].low
    IN  IF t = 1 THEN h - l
        ELSE LET prev_close == bars[t-1].close
             IN  Max2(h - l, Max2(Abs(h - prev_close), Abs(l - prev_close)))

\* atr(df, n): tr.rolling(n).mean()
atr(bars, n, t) ==
    IF t < n \/ t > Len(bars) THEN NaN
    ELSE Fl(RoundDiv(SumRange([k \in 1..Len(bars) |-> TrueRange(bars, k)], t - n + 1, t), n))

\* round2(x) = float(f"{float(x):.2f}"): to the nearest cent; NaN stays NaN
round2(a) == IF a.nan THEN NaN ELSE Fl(RoundDiv(a.v, 10) * 10)


----------------------------------------------------------------------------
(* Configuration (lines 20-44).  Prices in mills, RSI thresholds in        *)
(* percent, multipliers in tenths.                                         *)

UPTREND_RSI_MIN == 50
DOWNTREND_RSI_MAX == 50
MR_RSI2_MAX == 10
MR_RSI2_MIN == 90
MR_TREND_MA == 200
LT_SMA_WEEKS == 40
LT_RSI_MIN == 55
LT_MIN_WEEKS == 60
RISK_MULT == 10
REWARD_MULT == 18
LT_STOP_ATR_MULT == 20
LT_TARGET_ATR_MULT == 40
MIN_PRICE == 5000
MIN_DOLLAR_VOL == 10000000
MAX_SHORT_IDEAS == 12
MAX_LONG_IDEAS == 8
MIN_HISTORY == 210

\* an RSI threshold given in percent, in the unit of the RSI values
Pct(p) == Fl(100 * p)

----------------------------------------------------------------------------
(* Data frames.  A frame is [volume_col, bars]: whether the CSV had a      *)
(* volume column, and the rows sorted by date.  A row is                   *)
(* [date, open, high, low, close, volume]; date counts days from a Monday, *)
(* volume counts lots of 1,000 shares, so close * volume is in dollars.    *)

Closes(df) == [t \in 1..Len(df.bars) |-> df.bars[t].close]

\* A scan that finds nothing missing
NothingMissing(xs) == FALSE

\* any(pd.isna(last[k]) for k in [...]) over the listed columns' values
AnyMissing(xs) == \E x \in xs : isna(x)

None == [active |-> FALSE]

\* plan_dict: the levels rounded to cents, rr to two decimals, the ranking
\* score ("_score") to three
plan_dict(entry, stop, target, rr, strat, direction, horizon, score) ==
    [strategy |-> strat, active |-> TRUE,
     entry |-> round2(entry), stop |-> round2(stop), target |-> round2(target),
     rr |-> Fmt2(rr), direction |-> direction, horizon |-> horizon,
     score |-> Fmt3(score)]

\* (rsi14 - 50) / 50 as a ratio in ten-thousandths
RsiExcess(r) == IF r.nan THEN NaN ELSE Fl(2 * (r.v - 5000))

quality_long(close, sma200, ema20, ema50, rsi14) ==
    Max0(FAdd(Fl((IF Gt(close, sma200) THEN 10000 ELSE 0)
                 + (IF Gt(ema20, ema50) THEN 10000 ELSE 0)),
              RsiExcess(rsi14)))

quality_short(close, sma200, ema20, ema50, rsi14) ==
    Max0(FSub(Fl((IF Lt(close, sma200) THEN 10000 ELSE 0)
                 + (IF Lt(ema20, ema50) THEN 10000 ELSE 0)),
              RsiExcess(rsi14)))

\* rr * (1.0 + 0.5 * q)
Boost(rr, q) ==
    IF rr.nan \/ q.nan THEN NaN ELSE Fl(MulDiv(rr.v, 10000 + RoundDiv(q.v, 2), 10000))

\* The arguments strat_trend_pullback_long hands to plan_dict, or None
TrendPullbackLongLevels(df) ==
    LET c == Closes(df)
        t == Len(df.bars)
        ema5 == ema(c, 5, t)
        ema20 == ema(c, 20, t)
        ema50 == ema(c, 50, t)
        sma200 == sma(c, 200, t)
        rsi14 == rsi(c, 14, t)
        atr14 == atr(df.bars, 14, t)
    IN  IF AnyMissing({ema5, ema20, ema50, sma200, rsi14, atr14}) THEN None
        ELSE IF ~(Gt(ema5, ema20) /\ Ge(rsi14, Pct(UPTREND_RSI_MIN))) THEN None
        ELSE LET entry == Fl(df.bars[t].high + 50)
                 stop == FSub(entry, FMulTenths(RISK_MULT, atr14))
                 target == FAdd(entry, FMulTenths(REWARD_MULT, atr14))
                 rr == Ratio(FSub(target, entry), FloorEps(FSub(entry, stop)))
                 q == quality_long(Fl(c[t]), sma200, ema20, ema50, rsi14)
             IN  [active |-> TRUE, entry |-> entry, stop |-> stop, target |-> target,
                  rr |-> rr, score |-> Boost(rr, q)]

strat_trend_pullback_long(df) ==
    LET a == TrendPullbackLongLevels(df)
    IN  IF ~a.active THEN None
        ELSE plan_dict(a.entry, a.stop, a.target, a.rr, "TrendPullbackLong",
                       "bullish", "short", a.score)

\* The arguments strat_mean_reversion_long hands to plan_dict, or None.  The
\* missing-value scan covers sma200, sma5, rsi2 and atr14 only.
MeanReversionLongLevels(df) ==
    LET c == Closes(df)
        t == Len(df.bars)
        sma200 == sma(c, MR_TREND_MA, t)
        sma5 == sma(c, 5, t)
        rsi2 == rsi(c, 2, t)
        ema20 == ema(c, 20, t)
        ema50 == ema(c, 50, t)
        rsi14 == rsi(c, 14, t)
        atr14 == atr(df.bars, 14, t)
        close == Fl(c[t])
    IN  IF AnyMissing({sma200, sma5, rsi2, atr14}) THEN None
        ELSE IF ~(Gt(close, sma200) /\ Lt(rsi2, Pct(MR_RSI2_MAX))) THEN None
        ELSE LET entry == close
                 stop == FSub(entry, FMulTenths(RISK_MULT, atr14))
                 target == IF ~isna(sma5) THEN sma5
                           ELSE FAdd(entry, FMulTenths(REWARD_MULT, atr14))
                 rr == Ratio(FSub(target, entry), FloorEps(FSub(entry, stop)))
                 q == quality_long(close, sma(c, 200, t), ema20, ema50, rsi14)
             IN  [active |-> TRUE, entry |-> entry, stop |-> stop, target |-> target,
                  rr |-> rr, score |-> Boost(rr, q)]

strat_mean_reversion_long(df) ==
    LET a == MeanReversionLongLevels(df)
    IN  IF ~a.active THEN None
        ELSE plan_dict(a.entry, a.stop, a.target, a.rr, "MeanReversionLong",
                       "bullish", "short", a.score)

TrendPullbackShortLevels(df) ==
    LET c == Closes(df)
        t == Len(df.bars)
        ema5 == ema(c, 5, t)
        ema20 == ema(c, 20, t)
        ema50 == ema(c, 50, t)
        sma200 == sma(c, 200, t)
        rsi14 == rsi(c, 14, t)
        atr14 == atr(df.bars, 14, t)
    IN  IF AnyMissing({ema5, ema20, ema50, sma200, rsi14, atr14}) THEN None
        ELSE IF ~(Lt(ema5, ema20) /\ Le(rsi14, Pct(DOWNTREND_RSI_MAX))) THEN None
        ELSE LET entry == Fl(df.bars[t].low - 50)
                 stop == FAdd(entry, FMulTenths(RISK_MULT, atr14))
                 target == FSub(entry, FMulTenths(REWARD_MULT, atr14))
                 rr == Ratio(FSub(entry, target), FloorEps(FSub(stop, entry)))
                 q == quality_short(Fl(c[t]), sma200, ema20, ema50, rsi14)
             IN  [active |-> TRUE, entry |-> entry, stop |-> stop, target |-> target,
                  rr |-> rr, score |-> Boost(rr, q)]

strat_trend_pullback_short(df) ==
    LET a == TrendPullbackShortLevels(df)
    IN  IF ~a.active THEN None
        ELSE plan_dict(a.entry, a.stop, a.target, a.rr, "TrendPullbackShort",
                       "bearish", "short", a.score)

MeanReversionShortLevels(df) ==
    LET c == Closes(df)
        t == Len(df.bars)
        sma200 == sma(c, MR_TREND_MA, t)
        sma5 == sma(c, 5, t)
        rsi2 == rsi(c, 2, t)
        ema20 == ema(c, 20, t)
        ema50 == ema(c, 50, t)
        rsi14 == rsi(c, 14, t)
        atr14 == atr(df.bars, 14, t)
        close == Fl(c[t])
    IN  IF AnyMissing({sma200, sma5, rsi2, atr14}) THEN None
        ELSE IF ~(Lt(close, sma200) /\ Gt(rsi2, Pct(MR_RSI2_MIN))) THEN None
        ELSE LET entry == close
                 stop == FAdd(entry, FMulTenths(RISK_MULT, atr14))
                 target == IF ~isna(sma5) THEN sma5
                           ELSE FSub(entry, FMulTenths(REWARD_MULT, atr14))
                 rr == Ratio(FSub(entry, target), FloorEps(FSub(stop, entry)))
                 q == quality_short(close, sma(c, 200, t), ema20, ema50, rsi14)
             IN  [active |-> TRUE, entry |-> entry, stop |-> stop, target |-> target,
                  rr |-> rr, score |-> Boost(rr, q)]

strat_mean_reversion_short(df) ==
    LET a == MeanReversionShortLevels(df)
    IN  IF ~a.active THEN None
        ELSE plan_dict(a.entry, a.stop, a.target, a.rr, "MeanReversionShort",
                       "bearish", "short", a.score)

\* close / prev - 1 as a ratio in ten-thousandths.  A quotient of two distinct
\* doubles is never exactly 1, so a nonzero change keeps its sign.
RateOfChange(close, prev) ==
    LET r == MulDiv(close - prev, 10000, prev)
    IN  IF r # 0 THEN r ELSE IF close > prev THEN 1 ELSE IF close < prev THEN -1 ELSE 0

\* The arguments momentum_info_plan hands to plan_dict, or None.  Entry, stop
\* and target are rounded to cents before rr is computed; the score is rr.
MomentumInfoLevels(df) ==
    LET c == Closes(df)
        t == Len(df.bars)
        atr14 == atr(df.bars, 14, t)
    IN  IF isna(atr14) \/ t < 21 THEN None
        ELSE LET bullish == RateOfChange(c[t], c[t - 20]) >= 0
                 entry == round2(Fl(c[t]))
             IN  IF bullish
                 THEN LET stop == round2(FSub(entry, FMulTenths(RISK_MULT, atr14)))
                          target == round2(FAdd(entry, FMulTenths(REWARD_MULT, atr14)))
                          rr == Ratio(FSub(target, entry), FloorEps(FSub(entry, stop)))
                      IN  [active |-> TRUE, direction |-> "bullish", entry |-> entry,
                           stop |-> stop, target |-> target, rr |-> rr, score |-> rr]
                 ELSE LET stop == round2(FAdd(entry, FMulTenths(RISK_MULT, atr14)))
                          target == round2(FSub(entry, FMulTenths(REWARD_MULT, atr14)))
                          rr == Ratio(FSub(entry, target), FloorEps(FSub(stop, entry)))
                      IN  [active |-> TRUE, direction |-> "bearish", entry |-> entry,
                           stop |-> stop, target |-> target, rr |-> rr, score |-> rr]

momentum_info_plan(df) ==
    LET a == MomentumInfoLevels(df)
    IN  IF ~a.active THEN None
        ELSE plan_dict(a.entry, a.stop, a.target, a.rr, "MomentumInfo",
                       a.direction, "short", a.score)

----------------------------------------------------------------------------
(* Weekly aggregation and the long-horizon strategy *)

\* The W-FRI bin of a date: Monday to Friday of one week fall in one bin, a
\* Saturday or Sunday in the next
WeekOf(date) == (date + 2) \div 7

\* The label of a bin: the Friday that ends it
WeekLabel(date) == 7 * WeekOf(date) + 4

\* One daily row aggregated alone
WeekRow(r) == [r EXCEPT !.date = WeekLabel(r.date)]

\* The aggregate of rows a followed by rows b of one bin: first open, max
\* high, min low, last close, summed volume
Agg(a, b) ==
    [date |-> a.date, open |-> a.open, high |-> Max2(a.high, b.high),
     low |-> -Max2(-a.low, -b.low), close |-> b.close, volume |-> a.volume + b.volume]

\* The weekly rows of a run of days followed by the weekly rows of the days
\* after it: the bin the two share, if any, is aggregated into one row
JoinWeeks(a, b) ==
    IF a = <<>> THEN b
    ELSE IF b = <<>> THEN a
    ELSE IF a[Len(a)].date = b[1].date
    THEN SubSeq(a, 1, Len(a) - 1) \o <<Agg(a[Len(a)], b[1])>> \o Tail(b)
    ELSE a \o b

RECURSIVE WeeklyRows(_, _, _)
WeeklyRows(bars, lo, hi) ==
    IF lo > hi THEN <<>>
    ELSE IF lo = hi THEN <<WeekRow(bars[lo])>>
    ELSE LET mid == (lo + hi) \div 2
         IN  JoinWeeks(WeeklyRows(bars, lo, mid), WeeklyRows(bars, mid + 1, hi))

\* resample('W-FRI').agg(first, max, min, last, sum).dropna(): one row per
\* week that has rows (a week without rows aggregates to missing values and
\* is dropped).  On a frame without a volume column the aggregation raises
\* KeyError, which WeeklyTrendLongLevels accounts for.
resample_weekly(df) == WeeklyRows(df.bars, 1, Len(df.bars))

\* The arguments invest_trend_weekly_long hands to plan_dict, None, or
\* [raised |-> TRUE] when the frame has no volume column: the aggregation
\* names 'volume' and fails with a KeyError.
WeeklyTrendLongLevels(df) ==
    IF ~df.volume_col THEN [active |-> FALSE, raised |-> TRUE]
    ELSE LET w == resample_weekly(df)
             t == Len(w)
         IN  IF t < LT_MIN_WEEKS THEN None
             ELSE LET c == [k \in 1..t |-> w[k].close]
                      sma40 == sma(c, LT_SMA_WEEKS, t)
                      ema10 == ema(c, 10, t)
                      ema30 == ema(c, 30, t)
                      rsi14w == rsi(c, 14, t)
                      atr14w == atr(w, 14, t)
                      close == Fl(c[t])
                  IN  IF AnyMissing({sma40, ema10, ema30, rsi14w, atr14w}) THEN None
                      ELSE IF ~(Gt(close, sma40) /\ Gt(ema10, ema30)
                                /\ Ge(rsi14w, Pct(LT_RSI_MIN))) THEN None
                      ELSE LET entry == close
                               stop == FSub(entry, FMulTenths(LT_STOP_ATR_MULT, atr14w))
                               target == FAdd(entry, FMulTenths(LT_TARGET_ATR_MULT, atr14w))
                               rr == Ratio(FSub(target, entry), FloorEps(FSub(entry, stop)))
                               dist == Max0(Ratio(FSub(close, sma40), FloorEps(sma40)))
                               momq == Max0(RsiExcess(rsi14w))
                               mult == 10000 + RoundDiv(7 * dist.v, 10) + RoundDiv(momq.v, 2)
                           IN  [active |-> TRUE, entry |-> entry, stop |-> stop,
                                target |-> target, rr |-> rr,
                                score |-> Fl(MulDiv(rr.v, mult, 10000))]

invest_trend_weekly_long(df) ==
    LET a == WeeklyTrendLongLevels(df)
    IN  IF ~a.active THEN a
        ELSE plan_dict(a.entry, a.stop, a.target, a.rr, "WeeklyTrendLong",
                       "bullish", "long", a.score)

----------------------------------------------------------------------------
(* Liquidity gate and market regime *)

liquidity_ok(df) ==
    LET n == Len(df.bars)
    IN  IF df.bars[n].close < MIN_PRICE THEN FALSE
        ELSE IF ~df.volume_col THEN TRUE
        ELSE LET dv20 == sma([t \in 1..n |-> df.bars[t].close * df.bars[t].volume], 20, n)
             IN  ~isna(dv20) /\ dv20.v >= MIN_DOLLAR_VOL

\* A bias that asks for more than 2 and less than -2
BiasStrict(score) ==
    IF score > 2 THEN "bullish" ELSE IF score < -2 THEN "bearish" ELSE "neutral"

\* The bias of a composite score
Bias(score) ==
    IF score >= 2 THEN "bullish" ELSE IF score <= -2 THEN "bearish" ELSE "neutral"

\* market_regime on the benchmark's frame (a failed fetch, or a frame with no
\* rows, on which df.iloc[-1] raises, is the failure branch of MarketRegime).
\* rsi14 in hundredths of a percent and roc20 in ten-thousandths are already
\* round2(rsi14) and round2(roc20 * 100.0).
market_regime(df) ==
    LET c == Closes(df)
        t == Len(df.bars)
        sma200 == sma(c, 200, t)
        ema20 == ema(c, 20, t)
        ema50 == ema(c, 50, t)
        rsi14 == rsi(c, 14, t)
        roc20 == IF t >= 21 THEN RateOfChange(c[t], c[t - 20]) ELSE 0
        score == (IF Gt(Fl(c[t]), sma200) THEN 1 ELSE -1)
                 + (IF Gt(ema20, ema50) THEN 1 ELSE -1)
                 + (IF Ge(rsi14, Pct(50)) THEN 1 ELSE -1)
                 + (IF roc20 >= 0 THEN 1 ELSE -1)
    IN  [score |-> score, bias |-> Bias(score),
         spy_close |-> round2(Fl(c[t])), spy_sma200 |-> round2(sma200),
         ema20_gt_ema50 |-> Gt(ema20, ema50), rsi14 |-> rsi14,
         roc20_pct |-> roc20]

----------------------------------------------------------------------------
(* The histories fetch_stooq_csv can return, described by a shape: runs of *)
(* bars at one closing level each, on consecutive trading days.            *)
(*   segs    the runs, in date order: [lv: the close in mills, n: bars]    *)
(*   spread  high = close + spread, low = close - spread, open = close     *)
(*   volume  lots traded per bar, or -1 when the CSV has no volume column  *)
(*   dow0    the weekday of the first bar, 0 = Monday                      *)

RECURSIVE TotalBars(_)
TotalBars(segs) == IF segs = <<>> THEN 0 ELSE Head(segs).n + TotalBars(Tail(segs))

RECURSIVE LevelAt(_, _)
LevelAt(segs, k) ==
    IF k <= Head(segs).n THEN Head(segs).lv ELSE LevelAt(Tail(segs), k - Head(segs).n)

\* the date of the b-th trading day counted from a Monday
TradingDate(b) == 7 * (b \div 5) + (b % 5)

Frame(sh) ==
    [volume_col |-> sh.volume >= 0,
     bars |-> [k \in 1..TotalBars(sh.segs) |->
                 LET lv == LevelAt(sh.segs, k)
                 IN  [date |-> TradingDate(sh.dow0 + k - 1), open |-> lv,
                      high |-> lv + sh.spread, low |-> lv - sh.spread, close |-> lv,
                      volume |-> Max2(sh.volume, 0)]]]

\* The indicator columns at the last row: what the strategies read there
LastRow(df) ==
    LET c == Closes(df)
        t == Len(df.bars)
    IN  [close |-> Fl(c[t]), ema5 |-> ema(c, 5, t), ema20 |-> ema(c, 20, t),
         ema50 |-> ema(c, 50, t), sma200 |-> sma(c, 200, t), sma5 |-> sma(c, 5, t),
         rsi2 |-> rsi(c, 2, t), rsi14 |-> rsi(c, 14, t), atr14 |-> atr(df.bars, 14, t),
         close21 |-> IF t >= 21 THEN Fl(c[t - 20]) ELSE NaN]

----------------------------------------------------------------------------
(* Bounds of the explored inputs *)

\* instruments of one run whose fetch differs from the usual history
MaxVaried == 1
\* bars the price holds after its jump, and after its pullback
MaxRun == 10
MaxHold == 5
\* length of the series rsi is tried on
MaxLen == 4

Seg(l, n) == [lv |-> l, n |-> n]

\* A flat history of n0 bars, a jump of j held for h1 bars, a pullback of p
\* held for h2 bars, and one last bar tk away; dir = -1 mirrors it.
MkShape(n0, dir, j, h1, p, h2, tk, sp) ==
    LET base == IF dir = 1 THEN 10000 ELSE 60000
        l1 == base + dir * j
        l2 == l1 - dir * p
    IN  [segs |-> <<Seg(base, n0), Seg(l1, h1), Seg(l2, h2), Seg(l2 + tk, 1)>>,
         spread |-> sp, volume |-> 500, dow0 |-> 0]

PrefixLens == {2, 12, 20, 195, 290}

\* The pullback never takes the price to or below zero
Shapes ==
    {MkShape(n0, dir, j, h1, p, h2, tk, sp) :
        n0 \in PrefixLens, dir \in {1, -1}, j \in {0, 50000}, h1 \in {1, MaxRun},
        p \in {0, 50, 20000}, h2 \in {1, MaxHold}, tk \in {-50, 0, 50},
        sp \in {0, 100, 6000}}
    \ {MkShape(n0, 1, 0, h1, 20000, h2, tk, sp) :
        n0 \in PrefixLens, h1 \in {1, MaxRun}, h2 \in {1, MaxHold},
        tk \in {-50, 0, 50}, sp \in {0, 100, 6000}}

\* The histories one run of main() may be served, by name
History(k) ==
    CASE k = "uptrend" ->
           [segs |-> <<Seg(20000, 290), Seg(19000, 5), Seg(30000, 10)>>,
            spread |-> 100, volume |-> 500, dow0 |-> 0]
      [] k = "pullback" ->
           [segs |-> <<Seg(20000, 290), Seg(19000, 5), Seg(30000, 10), Seg(29000, 1)>>,
            spread |-> 100, volume |-> 500, dow0 |-> 0]
      [] k = "downtrend" ->
           [segs |-> <<Seg(60000, 290), Seg(61000, 5), Seg(30000, 10)>>,
            spread |-> 100, volume |-> 500, dow0 |-> 0]
      [] k = "short_history" ->
           [segs |-> <<Seg(20000, 150)>>, spread |-> 100, volume |-> 500, dow0 |-> 0]
      [] k = "penny" ->
           [segs |-> <<Seg(4000, 300)>>, spread |-> 100, volume |-> 500, dow0 |-> 0]
      [] k = "illiquid" ->
           [segs |-> <<Seg(20000, 300)>>, spread |-> 100, volume |-> 100, dow0 |-> 0]
      [] k = "no_volume" ->
           [segs |-> <<Seg(20000, 290), Seg(19000, 5), Seg(30000, 10)>>,
            spread |-> 100, volume |-> -1, dow0 |-> 0]

Histories == {"uptrend", "pullback", "downtrend", "short_history", "penny",
              "illiquid", "no_volume"}

Usual == "uptrend"

\* what fetch_stooq_csv returns for each history (computed once)
Fetched == [k \in Histories |-> Frame(History(k))]

----------------------------------------------------------------------------
(* main() *)

WATCHLIST ==
    <<"spy.us", "qqq.us", "iwm.us",
      "xlk.us", "xlf.us", "xle.us", "xlv.us", "xly.us", "xlb.us", "xli.us",
      "xlp.us", "xlu.us", "xlc.us",
      "aapl.us", "msft.us", "nvda.us", "amzn.us", "goog.us", "meta.us",
      "tsla.us", "amd.us", "avgo.us">>

\* sym.upper()
upper ==
    [s \in {WATCHLIST[k] : k \in 1..Len(WATCHLIST)} |->
        CASE s = "spy.us" -> "SPY.US" [] s = "qqq.us" -> "QQQ.US" [] s = "iwm.us" -> "IWM.US"
          [] s = "xlk.us" -> "XLK.US" [] s = "xlf.us" -> "XLF.US" [] s = "xle.us" -> "XLE.US"
          [] s = "xlv.us" -> "XLV.US" [] s = "xly.us" -> "XLY.US" [] s = "xlb.us" -> "XLB.US"
          [] s = "xli.us" -> "XLI.US" [] s = "xlp.us" -> "XLP.US" [] s = "xlu.us" -> "XLU.US"
          [] s = "xlc.us" -> "XLC.US" [] s = "aapl.us" -> "AAPL.US" [] s = "msft.us" -> "MSFT.US"
          [] s = "nvda.us" -> "NVDA.US" [] s = "amzn.us" -> "AMZN.US" [] s = "goog.us" -> "GOOG.US"
          [] s = "meta.us" -> "META.US" [] s = "tsla.us" -> "TSLA.US" [] s = "amd.us" -> "AMD.US"
          [] s = "avgo.us" -> "AVGO.US"]

\* The five daily strategies in the order main() calls them
ShortCandidates(d) ==
    <<strat_trend_pullback_long(d), strat_mean_reversion_long(d),
      strat_trend_pullback_short(d), strat_mean_reversion_short(d),
      momentum_info_plan(d)>>

\* A length check that lets every history through
history_unchecked == [k \in Histories |-> TRUE]

\* What main() computes from each history (computed once per history)
history_ok == [k \in Histories |-> Len(Fetched[k].bars) >= MIN_HISTORY]
liquid == [k \in Histories |-> liquidity_ok(Fetched[k])]
cands_short == [k \in Histories |-> ShortCandidates(Fetched[k])]
lt == [k \in Histories |-> invest_trend_weekly_long(Fetched[k])]
benchmark == [k \in Histories |-> market_regime(Fetched[k])]

\* [x for x in cands if x], each wrapped as {"symbol": symu, "plan": x}
RECURSIVE Records(_, _)
Records(symu, cands) ==
    IF cands = <<>> THEN <<>>
    ELSE (IF Head(cands).active THEN <<[symbol |-> symu, plan |-> Head(cands)]>> ELSE <<>>)
         \o Records(symu, Tail(cands))

\* The comparison of a sort without reverse=True
KeyLe(a, b) ==
    \/ a.plan.score.v < b.plan.score.v
    \/ a.plan.score.v = b.plan.score.v /\ a.plan.rr.v <= b.plan.rr.v

\* The sort key (plan["_score"], plan["rr"]), compared as Python compares tuples
KeyGe(a, b) ==
    \/ a.plan.score.v > b.plan.score.v
    \/ a.plan.score.v = b.plan.score.v /\ a.plan.rr.v >= b.plan.rr.v

\* list.sort(key=..., reverse=True): descending and stable
RECURSIVE Merge(_, _)
Merge(a, b) ==
    IF a = <<>> THEN b
    ELSE IF b = <<>> THEN a
    ELSE IF KeyGe(Head(a), Head(b)) THEN <<Head(a)>> \o Merge(Tail(a), b)
    ELSE <<Head(b)>> \o Merge(a, Tail(b))

RECURSIVE SortDesc(_)
SortDesc(r) ==
    IF Len(r) <= 1 THEN r
    ELSE LET h == Len(r) \div 2
         IN  Merge(SortDesc(SubSeq(r, 1, h)), SortDesc(SubSeq(r, h + 1, Len(r))))

\* r[:cap]
Truncate(r, cap) == SubSeq(r, 1, IF Len(r) < cap THEN Len(r) ELSE cap)

\* r["plan"].pop("_score", None) on every record
PopScore(r) ==
    [k \in 1..Len(r) |->
        [symbol |-> r[k].symbol,
         plan |-> [f \in DOMAIN r[k].plan \ {"score"} |-> r[k].plan[f]]]]

VARIABLES
    pc,             \* where main() is: "regime", "fetch", "short", "long",
                    \* "ranked", "done", "failed"; or how far a function
                    \* evaluated on its own is: "input", "evaluated",
                    \* "classified"
    i,              \* index into WATCHLIST of the instrument of this iteration
    regime,         \* market_regime()'s result
    df_i,           \* df of this iteration: the history fetched for instrument i
    short_results,  \* the two accumulators
    long_results,
    ohlc,           \* symbols whose public/ohlc/<sym>.json was written
    payload,        \* public/data/today.json: [writes, ideas, market_bias]
    log,            \* what the loop printed, one entry per "[sym]" header:
                    \* [sym, fetched, msg]
    varied,         \* fetches so far that differed from the usual history
    shape,          \* the history handed to the strategies on their own
    last,           \* its indicator row
    levels,         \* what each strategy handed to plan_dict
    plans,          \* what each strategy returned
    series,         \* the series rsi is given, its period, and its result
    period,
    rsi_out

vars == <<pc, i, regime, df_i, short_results, long_results, ohlc, payload, log,
          varied, shape, last, levels, plans, series, period, rsi_out>>

mainVars == <<i, regime, df_i, short_results, long_results, ohlc, payload, log, varied>>
strategyVars == <<shape, last, levels, plans>>
rsiVars == <<series, period, rsi_out>>

NoMain ==
    /\ i = 0 /\ regime = None /\ df_i = "" /\ short_results = <<>> /\ long_results = <<>>
    /\ ohlc = {} /\ payload = [writes |-> 0] /\ log = <<>> /\ varied = 0
NoStrategy == shape = None /\ last = None /\ levels = None /\ plans = None
NoRsi == series = <<>> /\ period = 0 /\ rsi_out = <<>>

----------------------------------------------------------------------------
(* The run of main() *)

Init == pc = "regime" /\ NoMain /\ NoStrategy /\ NoRsi

\* Whether the fetch of history k fits the bound on varied fetches
Allowed(k) == k = Usual \/ varied < MaxVaried
Vary(k) == IF k = Usual THEN varied ELSE varied + 1

\* An exception that leaves the loop and main()
AfterRaise == "failed"

\* except Exception: the error is logged and the for loop takes the next
\* symbol
AfterExcept == "fetch"

\* regime = market_regime(), outside any try: a failed fetch of the
\* benchmark ends main() with the exception
MarketRegime ==
    /\ pc = "regime"
    /\ \/ /\ pc' = "failed"
          /\ UNCHANGED mainVars
       \/ \E k \in {Usual, "downtrend"} :
             /\ Allowed(k)
             /\ regime' = benchmark[k]
             /\ varied' = Vary(k)
             /\ i' = 1
             /\ pc' = "fetch"
             /\ UNCHANGED <<df_i, short_results, long_results, ohlc, payload, log>>
    /\ UNCHANGED <<strategyVars, rsiVars>>

\* One entry of the loop up to the OHLC file: the fetch, the two filters
\* (each a continue), the file; an exception of the fetch is caught by the
\* except clause, which logs it and goes on to the next symbol.
FetchInstrument ==
    /\ pc = "fetch"
    /\ i <= Len(WATCHLIST)
    /\ \/ /\ varied < MaxVaried
          /\ varied' = varied + 1
          /\ log' = Append(log, [sym |-> WATCHLIST[i], fetched |-> "error",
                                 msg |-> "[WARN] error"])
          /\ i' = i + 1
          /\ pc' = AfterExcept
          /\ UNCHANGED <<df_i, ohlc>>
       \/ \E k \in Histories :
             /\ Allowed(k)
             /\ varied' = Vary(k)
             /\ df_i' = k
             /\ IF ~history_ok[k]
                THEN /\ log' = Append(log, [sym |-> WATCHLIST[i], fetched |-> k,
                                            msg |-> "skipped: not enough history"])
                     /\ i' = i + 1
                     /\ UNCHANGED <<pc, ohlc>>
                ELSE IF ~liquid[k]
                THEN /\ log' = Append(log, [sym |-> WATCHLIST[i], fetched |-> k,
                                            msg |-> "skipped: liquidity/price filter"])
                     /\ i' = i + 1
                     /\ UNCHANGED <<pc, ohlc>>
                ELSE /\ log' = Append(log, [sym |-> WATCHLIST[i], fetched |-> k, msg |-> ""])
                     /\ ohlc' = ohlc \cup {WATCHLIST[i]}
                     /\ pc' = "short"
                     /\ UNCHANGED i
    /\ UNCHANGED <<regime, short_results, long_results, payload>>
    /\ UNCHANGED <<strategyVars, rsiVars>>

\* The five daily strategies and the append of those that returned a plan
ShortStrategies ==
    /\ pc = "short"
    /\ short_results' = short_results \o Records(upper[WATCHLIST[i]], cands_short[df_i])
    /\ pc' = "long"
    /\ UNCHANGED <<i, regime, df_i, long_results, ohlc, payload, log, varied>>
    /\ UNCHANGED <<strategyVars, rsiVars>>

\* The weekly strategy: its plan is appended, or its exception is caught by
\* the except clause, which logs it; either way the loop goes on.
LongStrategy ==
    /\ pc = "long"
    /\ IF "raised" \in DOMAIN lt[df_i]
       THEN /\ log' = [log EXCEPT ![Len(log)].msg = "[WARN] error"]
            /\ UNCHANGED long_results
       ELSE /\ long_results' = long_results \o Records(upper[WATCHLIST[i]], <<lt[df_i]>>)
            /\ UNCHANGED log
    /\ i' = i + 1
    /\ pc' = (IF "raised" \in DOMAIN lt[df_i] THEN AfterExcept ELSE "fetch")
    /\ UNCHANGED <<regime, df_i, short_results, ohlc, payload, varied>>
    /\ UNCHANGED <<strategyVars, rsiVars>>

\* After the loop: rank and cap per horizon
Rank ==
    /\ pc = "fetch"
    /\ i > Len(WATCHLIST)
    /\ short_results' = Truncate(SortDesc(short_results), MAX_SHORT_IDEAS)
    /\ long_results' = Truncate(SortDesc(long_results), MAX_LONG_IDEAS)
    /\ pc' = "ranked"
    /\ UNCHANGED <<i, regime, df_i, ohlc, payload, log, varied>>
    /\ UNCHANGED <<strategyVars, rsiVars>>

\* Strip the ranking score and write the payload
Emit ==
    /\ pc = "ranked"
    /\ short_results' = PopScore(short_results)
    /\ long_results' = PopScore(long_results)
    /\ payload' = [writes |-> payload.writes + 1, watchlist |-> WATCHLIST,
                   market_bias |-> regime,
                   ideas |-> PopScore(short_results) \o PopScore(long_results)]
    /\ pc' = "done"
    /\ UNCHANGED <<i, regime, df_i, ohlc, log, varied>>
    /\ UNCHANGED <<strategyVars, rsiVars>>

Next ==
    \/ MarketRegime
    \/ FetchInstrument
    \/ ShortStrategies
    \/ LongStrategy
    \/ Rank
    \/ Emit

Spec == Init /\ [][Next]_vars

----------------------------------------------------------------------------
(* Properties of main() *)

\* r is non-increasing in (ranking score, rr), compared lexicographically
RankedOrder(r) ==
    \A k \in 1..(Len(r) - 1) :
        \/ r[k].plan.score.v > r[k + 1].plan.score.v
        \/ /\ r[k].plan.score.v = r[k + 1].plan.score.v
           /\ r[k].plan.rr.v >= r[k + 1].plan.rr.v

\* e is r record by record, in r's order (the ranking score aside)
SameRecords(e, r) ==
    /\ Len(e) = Len(r)
    /\ \A k \in 1..Len(r) :
          /\ e[k].symbol = r[k].symbol
          /\ \A f \in DOMAIN e[k].plan : e[k].plan[f] = r[k].plan[f]

\* C1: the emitted short-horizon list has at most MAX_SHORT_IDEAS (12)
\* records and the emitted long-horizon list at most MAX_LONG_IDEAS (8), and
\* each is emitted in an order that is non-increasing in (ranking score, rr)
\* compared lexicographically.
EmittedCappedAndRanked ==
    [][pc # "done" /\ pc' = "done" =>
          /\ Len(short_results') <= 12 /\ Len(long_results') <= 8
          /\ RankedOrder(short_results) /\ RankedOrder(long_results)
          /\ SameRecords(short_results', short_results)
          /\ SameRecords(long_results', long_results)
          /\ payload'.ideas = short_results' \o long_results']_vars

\* A run whose candidates exceed both caps and whose best short idea came
\* from an instrument late in the watchlist
EmittedFullAndReordered ==
    /\ pc = "done" /\ payload.writes = 1
    /\ Len(short_results) = 12 /\ Len(long_results) = 8
    /\ short_results[1].symbol = "AVGO.US"
    /\ short_results[1].plan.strategy # short_results[2].plan.strategy

\* the records of symbol s in bucket r
RecordsOf(s, r) == {k \in 1..Len(r) : r[k].symbol = upper[s]}

\* C4: an instrument whose iteration failed, at the fetch or in any
\* computation after it, contributes no record to either bucket, and the
\* loop goes on to the next instrument.
FailedContributesNothing ==
    \A k \in 1..Len(log) :
        log[k].msg = "[WARN] error" =>
            /\ RecordsOf(log[k].sym, short_results) = {}
            /\ RecordsOf(log[k].sym, long_results) = {}
            /\ k = Len(log) => pc = "fetch" /\ i = k + 1

\* An instrument without a volume column whose weekly aggregation failed
\* after its daily plans were appended
NoVolumeFailsAfterShortPlans ==
    /\ pc = "fetch" /\ log # <<>>
    /\ log[Len(log)].fetched = "no_volume" /\ log[Len(log)].msg = "[WARN] error"
    /\ RecordsOf(log[Len(log)].sym, short_results) # {}

\* C5: a failure of market_regime ends the run: no instrument is evaluated
\* and the payload is never written.  Any failure inside the loop does not:
\* the run goes on through the watchlist in order and the payload is written
\* exactly once, at the end.
RegimeFatalOthersIsolated ==
    /\ pc = "failed" =>
          /\ log = <<>> /\ ohlc = {} /\ short_results = <<>> /\ long_results = <<>>
          /\ payload.writes = 0
    /\ payload.writes = (IF pc = "done" THEN 1 ELSE 0)
    /\ \A k \in 1..Len(log) : log[k].sym = WATCHLIST[k]
    /\ pc \in {"ranked", "done"} => Len(log) = Len(WATCHLIST)
    /\ pc = "fetch" /\ i <= Len(WATCHLIST) => ENABLED FetchInstrument
    /\ pc = "short" => ENABLED ShortStrategies
    /\ pc = "long" => ENABLED LongStrategy

\* A run that met a failure in its loop and wrote the payload
FailureThenPayload ==
    /\ pc = "done" /\ payload.writes = 1
    /\ \E k \in 1..Len(log) : log[k].msg = "[WARN] error" /\ k < Len(log)

\* the entry the step logged, if it logged one
Logged == log'[Len(log')]

\* C6: an instrument whose series has fewer than 210 bars, or that fails
\* the liquidity/price gate, is skipped before any strategy runs: the step
\* leaves both buckets unchanged, writes no OHLC file and goes on to the
\* next instrument.
SkippedLeavesNoTrace ==
    [][(/\ Len(log') = Len(log) + 1
        /\ Logged.fetched \in Histories
        /\ \/ Len(Fetched[Logged.fetched].bars) < 210
           \/ ~liquidity_ok(Fetched[Logged.fetched]))
       => /\ short_results' = short_results /\ long_results' = long_results
          /\ ohlc' = ohlc
          /\ pc' = "fetch" /\ i' = i + 1]_vars

\* An instrument of 150 bars was skipped
ShortHistorySkipped ==
    /\ pc = "fetch" /\ log # <<>>
    /\ log[Len(log)].fetched = "short_history"
    /\ Len(Fetched["short_history"].bars) = 150
    /\ log[Len(log)].msg = "skipped: not enough history"
    /\ log[Len(log)].sym \notin ohlc

----------------------------------------------------------------------------
(* The functions on their own: each is handed a frame and its result kept *)

\* What each of the six strategies hands to plan_dict, in the order main()
\* calls them
StrategyLevels(d) ==
    <<TrendPullbackLongLevels(d), MeanReversionLongLevels(d),
      TrendPullbackShortLevels(d), MeanReversionShortLevels(d),
      MomentumInfoLevels(d), WeeklyTrendLongLevels(d)>>

\* What each of the six strategies returns
StrategyPlans(d) == ShortCandidates(d) \o <<invest_trend_weekly_long(d)>>

InitFunctions ==
    /\ pc = "input"
    /\ NoMain /\ NoRsi
    /\ shape \in Shapes
    /\ last = None /\ levels = None /\ plans = None

\* The six strategies on the frame
EvalStrategies ==
    /\ pc = "input"
    /\ shape # None
    /\ \E d \in {Frame(shape)} :
          /\ last' = LastRow(d)
          /\ levels' = StrategyLevels(d)
          /\ plans' = StrategyPlans(d)
    /\ pc' = "evaluated"
    /\ UNCHANGED <<shape, mainVars, rsiVars>>

\* market_regime() with the frame served as the benchmark's history
EvalRegime ==
    /\ pc = "evaluated"
    /\ regime' = market_regime(Frame(shape))
    /\ pc' = "classified"
    /\ UNCHANGED <<i, df_i, short_results, long_results, ohlc, payload, log, varied>>
    /\ UNCHANGED <<strategyVars, rsiVars>>

NextFunctions == EvalStrategies \/ EvalRegime

SpecFunctions == InitFunctions /\ [][NextFunctions]_vars

----------------------------------------------------------------------------
(* rsi on its own, over every short series of a few price levels *)

\* the closes a series is made of
PriceLevels == {1000, 1010, 1020}

SeriesOfLen(n) == [1..n -> PriceLevels]

InitRsi ==
    /\ pc = "input"
    /\ NoMain /\ NoStrategy
    /\ \E n \in 1..MaxLen : series \in SeriesOfLen(n)
    /\ period \in {2, 14}
    /\ rsi_out = <<>>

\* rsi(series, period), every position of it
EvalRsi ==
    /\ pc = "input"
    /\ series # <<>>
    /\ rsi_out' = [t \in 1..Len(series) |-> rsi(series, period, t)]
    /\ pc' = "evaluated"
    /\ UNCHANGED <<series, period, mainVars, strategyVars>>

NextRsi == EvalRsi

SpecRsi == InitRsi /\ [][NextRsi]_vars

----------------------------------------------------------------------------
(* Properties of rsi *)

\* C7: rsi(series, n) lies in [0, 100] at every position where it is
\* defined, and at every position where the smoothed average loss is zero
\* and the smoothed average gain is positive it is exactly 100, not a
\* missing value.
RsiBoundedAndSaturates ==
    pc = "evaluated" /\ series # <<>> =>
        \A t \in 1..Len(series) :
            /\ ~isna(rsi_out[t]) => rsi_out[t].v >= 0 /\ rsi_out[t].v <= 10000
            /\ AvgLoss(series, period, t) = 0 /\ AvgGain(series, period, t) > 0
                   => rsi_out[t] = Fl(10000)

\* A series that has only risen: no loss so far, some gain, and rsi evaluated
RsiAfterRisesOnly ==
    /\ pc = "evaluated" /\ series = <<1000, 1010, 1020>> /\ period = 14
    /\ AvgLoss(series, period, 3) = 0 /\ AvgGain(series, period, 3) > 0
    /\ isna(rsi_out[3])

----------------------------------------------------------------------------
(* Properties of the strategies and of market_regime *)

\* positions in levels and plans
AllStrategies == 1..6

Evaluated == pc \in {"evaluated", "classified"} /\ shape # None

\* C2: every plan a strategy returns has target > entry > stop when it is
\* bullish and target < entry < stop when it is bearish.
LevelsOrdered ==
    Evaluated =>
        \A k \in AllStrategies :
            plans[k].active =>
                IF plans[k].direction = "bullish"
                THEN plans[k].target.v > plans[k].entry.v /\ plans[k].entry.v > plans[k].stop.v
                ELSE plans[k].target.v < plans[k].entry.v /\ plans[k].entry.v < plans[k].stop.v

\* strat_mean_reversion_long admits a frame whose 5-bar average is below
\* the close: the target is then below the entry
MeanReversionTargetBelowEntry ==
    /\ Evaluated /\ plans[2].active
    /\ plans[2].direction = "bullish" /\ plans[2].target.v < plans[2].entry.v

\* C3: the rr of every plan is |target - entry| / max(|entry - stop|, 1e-6)
\* of the entry, stop and target the strategy computed, and is never negative.
RewardRiskFormula ==
    Evaluated =>
        \A k \in AllStrategies :
            plans[k].active =>
                /\ plans[k].rr = Fmt2(Ratio(Fl(Abs(levels[k].target.v - levels[k].entry.v)),
                                            FloorEps(Fl(Abs(levels[k].entry.v - levels[k].stop.v)))))
                /\ plans[k].rr.v >= 0

NegativeRewardRisk == Evaluated /\ plans[2].active /\ plans[2].rr.v < 0

\* C8: entry, stop and target of every plan are strictly positive.
LevelsPositive ==
    Evaluated =>
        \A k \in AllStrategies :
            plans[k].active =>
                plans[k].entry.v > 0 /\ plans[k].stop.v > 0 /\ plans[k].target.v > 0

\* A bullish momentum plan on a frame whose range is wide next to its price
StopBelowZero == Evaluated /\ plans[5].active /\ plans[5].stop.v < 0

\* The four conditions of the composite score, read off the indicator row;
\* roc20 is 0.0 on fewer than 21 bars, and otherwise has the sign of the
\* change of the close over 20 bars
ScoreConditions ==
    <<Gt(last.close, last.sma200),
      Gt(last.ema20, last.ema50),
      Ge(last.rsi14, Fl(5000)),
      isna(last.close21) \/ last.close.v >= last.close21.v>>

\* C9: market_regime's score is the sum of four contributions, each +1 if
\* its condition holds and -1 otherwise (close > sma200, ema20 > ema50,
\* rsi14 >= 50, roc20 >= 0), so it lies in -4..4; the bias is bullish iff
\* score >= 2, bearish iff score <= -2, and neutral otherwise.
RegimeScoreAndBias ==
    pc = "classified" =>
        LET held == Cardinality({k \in 1..4 : ScoreConditions[k]})
            sum == held - (4 - held)
        IN  /\ regime.score = sum
            /\ regime.score \in -4..4
            /\ regime.bias = "bullish" <=> regime.score >= 2
            /\ regime.bias = "bearish" <=> regime.score <= -2
            /\ regime.bias = "neutral" <=> regime.score > -2 /\ regime.score < 2

\* A benchmark two of whose conditions hold against the other two missing
\* or failing the other way
RegimeBullishAtTwo ==
    /\ pc = "classified" /\ regime.score = 2 /\ regime.bias = "bullish"
    /\ isna(last.sma200)

\* C10: each of the five daily strategies returns no plan whenever an
\* indicator it consumes at the latest bar is missing, those of its quality
\* score (sma200, ema20, ema50, rsi14) included.
DeclinesOnMissing ==
    Evaluated =>
        /\ (\E x \in {last.ema5, last.ema20, last.ema50, last.sma200, last.rsi14,
                       last.atr14} : x.nan)
              => ~plans[1].active /\ ~plans[3].active
        /\ (\E x \in {last.sma200, last.sma5, last.rsi2, last.atr14, last.ema20,
                       last.ema50, last.rsi14} : x.nan)
              => ~plans[2].active /\ ~plans[4].active
        /\ (last.atr14.nan \/ last.close21.nan) => ~plans[5].active

\* A frame too short for sma200 that otherwise meets the uptrend rule of
\* strat_trend_pullback_long, which declines
UptrendWithoutSma200 ==
    /\ Evaluated
    /\ isna(last.sma200) /\ ~isna(last.atr14)
    /\ Gt(last.ema5, last.ema20) /\ Ge(last.rsi14, Pct(UPTREND_RSI_MIN))
    /\ ~plans[1].active

=============================================================================
